---- MODULE Spec2Model ----
(***************************************************************************)
(* A model of data_collector/getdata.py: the retrying fetcher              *)
(* (safe_api_call), the SQLite store with its upserts, the four            *)
(* collectors and the run-to-completion driver at module level.            *)
(*                                                                         *)
(* A table is a set of rows; a PRIMARY KEY is not built into the           *)
(* representation, it is what the ON CONFLICT clauses have to maintain.    *)
(* "db" is the committed content of tornticker.db, "txn" is what the       *)
(* connection's cursor sees (committed rows plus the open transaction).    *)
(***************************************************************************)
EXTENDS Integers, Sequences, FiniteSets, TLC

(* ------------------------------ bounds -------------------------------- *)
\* calendar dates are 1..MaxDate, ordered as ISO date strings are
MaxDate == 2
\* invocations of the script
MaxRuns == 2
\* item identifiers are 1..MaxItemId
MaxItemId == 2
\* direct upsert_item calls explored by SpecItems
MaxItemOps == 2
\* direct fact upserts explored by SpecFacts
MaxFactOps == 2
\* upstream error codes are 0..MaxCode
MaxCode == 25
\* listings in a pointsmarket response given to the collector on its own
MaxListings == 3

(* ------------------------- program constants -------------------------- *)
MAX_RETRIES == 5
RETRY_WAIT == 60
RATE_LIMIT_DELAY == 10
RetryableCodes == {0, 5, 8, 15, 17, 24}

Dates == 1..MaxDate
ItemIds == 1..MaxItemId
Feeds == <<"items", "bank", "pointsmarket", "stats">>

\* SQL NULL / Python None
NULL == "NULL"

VARIABLES
    db,           \* committed content of the database file
    txn,          \* the connection's view: db plus uncommitted writes
    runs,         \* completed invocations of the script
    today,        \* date.today() of the current invocation
    needs_items,  \* line 681
    needs_stats,  \* line 682
    pc,           \* position of the driver
    feed,         \* index in Feeds of the feed being handled
    attempt,      \* loop variable of safe_api_call
    requests,     \* the requests issued by the current call and how each ended
    waits,        \* time.sleep arguments of the current call, in order
    data,         \* payload returned by safe_api_call
    error_code,   \* line 51: data["error"]["code"] of the latest response
    exc,          \* exception in flight / last caught by the driver
    result,       \* per feed: how the driver left it in this run
    caught,       \* the feed and kind of the last exception the driver caught
    calls,        \* per feed: calls of safe_api_call in this run
    delayed,      \* feeds preceded by the rate-limit sleep in this run
    snap,         \* db when the current feed's try block was entered
    collected_today, \* feeds committed by earlier invocations on date today
    last,         \* the last direct store operation (SpecItems, SpecFacts)
    sent          \* requests.get calls since the process (SpecFetch: the call) began

vars == <<db, txn, runs, today, needs_items, needs_stats, pc, feed, attempt,
          requests, waits, data, error_code, exc, result, caught, calls, delayed, snap,
          collected_today, last, sent>>

driverVars == <<db, runs, today, needs_items, needs_stats, pc, feed, attempt,
                requests, waits, data, error_code, exc, result, caught, calls,
                delayed, snap, collected_today, sent>>

(* ------------------------------ the store ----------------------------- *)
EmptyStore == [items |-> {}, data |-> {}, bank |-> {}, pointsmarket |-> {},
               stats |-> {}]

DescFields == {"name", "description", "effect", "type", "weapon_type",
               "image", "tradeable"}

\* SQL's x != y in a WHERE / CASE WHEN position: NULL on either side gives
\* NULL, which is not true.
SqlNe(x, y) == x # NULL /\ y # NULL /\ x # y

\* faulty variant: the query without its WHERE clause
check_needs_update_any_date(store, table_name, date_str) ==
    Cardinality(store[table_name]) = 0

\* SELECT COUNT(*) FROM table WHERE date = ?  ... == 0
check_needs_update(store, table_name, date_str) ==
    Cardinality({r \in store[table_name] : r.date = date_str}) = 0

\* the seven-way OR of upsert_item's WHERE and CASE WHEN
ItemDiffers(row, item) == \E f \in DescFields : SqlNe(row[f], item[f])

ItemRow(item, date_str) ==
    [id |-> item.id, name |-> item.name, description |-> item.description,
     effect |-> item.effect, type |-> item.type,
     weapon_type |-> item.weapon_type, image |-> item.image,
     tradeable |-> item.tradeable, last_update |-> date_str]

\* items.name is TEXT NOT NULL: the statement raises IntegrityError
upsert_item_raises(item) == item.name = NULL

\* faulty variant: the loop without its call of upsert_item
upsert_item_left_out(store, item, date_str) == store

\* faulty variant: ON CONFLICT(id) DO UPDATE with neither WHERE nor CASE
upsert_item_overwrites(store, item, date_str) ==
    [store EXCEPT !.items =
         {r \in @ : r.id # item.id} \cup {ItemRow(item, date_str)}]

\* INSERT INTO items ... ON CONFLICT(id) DO UPDATE SET ... WHERE ...
upsert_item(store, item, date_str) ==
    LET excluded == ItemRow(item, date_str)
        conflict == {r \in store.items : r.id = item.id}
        update(r) ==
            IF ItemDiffers(r, excluded)
            THEN [excluded EXCEPT !.last_update =
                      IF ItemDiffers(r, excluded) THEN excluded.last_update
                      ELSE r.last_update]
            ELSE r
    IN  IF conflict = {}
        THEN [store EXCEPT !.items = @ \cup {excluded}]
        ELSE [store EXCEPT !.items =
                  {IF r \in conflict THEN update(r) ELSE r : r \in @}]

DataRow(item, date_str) ==
    [id |-> item.id, date |-> date_str, buy_price |-> item.buy_price,
     sell_price |-> item.sell_price, market_value |-> item.market_value,
     circulation |-> item.circulation]

\* faulty variant: DO UPDATE SET circulation = circulation + excluded.circulation
upsert_data_accumulates(store, item, date_str) ==
    LET excluded == DataRow(item, date_str)
        conflict == {r \in store.data : r.id = item.id /\ r.date = date_str}
    IN  IF conflict = {}
        THEN [store EXCEPT !.data = @ \cup {excluded}]
        ELSE [store EXCEPT !.data =
                  {IF r \in conflict
                   THEN [excluded EXCEPT !.circulation =
                             r.circulation + excluded.circulation]
                   ELSE r : r \in @}]

\* INSERT INTO data ... ON CONFLICT(id, date) DO UPDATE SET ...
upsert_data(store, item, date_str) ==
    LET excluded == DataRow(item, date_str)
        conflict == {r \in store.data : r.id = item.id /\ r.date = date_str}
    IN  IF conflict = {}
        THEN [store EXCEPT !.data = @ \cup {excluded}]
        ELSE [store EXCEPT !.data =
                  {IF r \in conflict THEN excluded ELSE r : r \in @}]

\* faulty variant: a plain INSERT into a table without its key
upsert_by_date_appends(store, table_name, row) ==
    [store EXCEPT ![table_name] = @ \cup {row}]

\* INSERT INTO <table> (date, ...) ... ON CONFLICT(date) DO UPDATE SET ...
\* "row" is the excluded row, its date included
upsert_by_date(store, table_name, row) ==
    LET conflict == {r \in store[table_name] : r.date = row.date}
    IN  IF conflict = {}
        THEN [store EXCEPT ![table_name] = @ \cup {row}]
        ELSE [store EXCEPT ![table_name] =
                  {IF r \in conflict THEN row ELSE r : r \in @}]

BankRow(date_str, bank) ==
    [date |-> date_str, rate_1w |-> bank.w1, rate_2w |-> bank.w2,
     rate_1m |-> bank.m1, rate_2m |-> bank.m2, rate_3m |-> bank.m3]

PointsRow(date_str, avg_cost) ==
    [date |-> date_str, avg_point_cost |-> avg_cost]

\* the 105 counters are copied column by column; two stand for them
StatsRow(date_str, stats) ==
    [date |-> date_str, users_total |-> stats.users_total,
     total_statenhancers_used |-> stats.total_statenhancers_used]


(* ------------------------- inputs of the model ------------------------ *)
OneOff(base, fields, alts) ==
    {base} \cup {[base EXCEPT ![f] = v] : f \in fields, v \in alts}

MetaA == [name |-> "a", description |-> "a", effect |-> "a", type |-> "a",
          weapon_type |-> "a", image |-> "a", tradeable |-> "a"]
PriceA == [buy_price |-> 0, sell_price |-> 0, market_value |-> 0,
           circulation |-> 0]
PriceFields == {"buy_price", "sell_price", "market_value", "circulation"}

Entry(id, meta, price) ==
    [id |-> id, name |-> meta.name, description |-> meta.description,
     effect |-> meta.effect, type |-> meta.type,
     weapon_type |-> meta.weapon_type, image |-> meta.image,
     tradeable |-> meta.tradeable, buy_price |-> price.buy_price,
     sell_price |-> price.sell_price, market_value |-> price.market_value,
     circulation |-> price.circulation]

\* A parsed response without "error": "key" says whether it holds the
\* top-level key the collector indexes, "body" is the value under it.
Payload(body) == [key |-> TRUE, body |-> body]
NoData == [key |-> FALSE, body |-> <<>>]

\* The items of an "items" response after the .get(key, default) calls of
\* lines 153-170, in the order of the response: none, or identifiers
\* 1..MaxItemId (dict keys, hence distinct), each with a name or with
\* "name": null.
PayloadMetas == {MetaA, [MetaA EXCEPT !.name = NULL]}
ItemsPayloads ==
    UNION {{p \in [1..k -> {Entry(i, m, PriceA) : i \in 1..k,
                                                  m \in PayloadMetas}] :
               \A i \in 1..k : p[i].id = i} : k \in {0, MaxItemId}}

BankA == [w1 |-> 1, w2 |-> 1, m1 |-> 1, m2 |-> 1, m3 |-> 1]
BankPayloads == {BankA}

\* a pointsmarket response: its listings, one of which may lack "cost"
Listing(c) == [has_cost |-> TRUE, cost |-> c]
NoCost == [has_cost |-> FALSE, cost |-> 0]
PointsPayloads == {<<Listing(100), Listing(200), Listing(300)>>,
                   <<Listing(100), NoCost>>}

\* timestamps count ticks, TicksPerDay of them to a calendar date
TicksPerDay == 2
Timestamps == TicksPerDay .. (TicksPerDay * (MaxDate + 1) - 1)
StatsPayloads ==
    {[has_timestamp |-> TRUE, timestamp |-> t, users_total |-> 1,
      total_statenhancers_used |-> 1] : t \in Timestamps}
    \cup {[has_timestamp |-> FALSE, timestamp |-> 0, users_total |-> 1,
           total_statenhancers_used |-> 1]}

Payloads(f) ==
    {NoData} \cup
    {Payload(b) : b \in
        CASE Feeds[f] = "items" -> ItemsPayloads
          [] Feeds[f] = "bank" -> BankPayloads
          [] Feeds[f] = "pointsmarket" -> PointsPayloads
          [] Feeds[f] = "stats" -> StatsPayloads}

\* error codes an upstream response may carry
ErrorCodes == 0..MaxCode
\* the codes the driver's runs are explored with
SampleCodes == {0, 2, 5}

(* ----------------------------- exceptions ----------------------------- *)
NoExc == [cls |-> "", msg |-> "", arg |-> 0]
\* line 61
FatalExc(code) == [cls |-> "Exception", msg |-> "Fatal API error", arg |-> code]
\* line 67
ExhaustedExc ==
    [cls |-> "Exception", msg |-> "Failed to fetch API after retries",
     arg |-> MAX_RETRIES]
KeyErrorExc == [cls |-> "KeyError", msg |-> "KeyError", arg |-> 0]
IntegrityExc ==
    [cls |-> "IntegrityError", msg |-> "NOT NULL constraint failed", arg |-> 0]


(* ------------------------------ the driver ---------------------------- *)
\* no response yet, or a response without an "error" object (line 50)
NoCode == -1

NoOp == [kind |-> "none", arg |-> <<>>, date |-> 0, pre |-> EmptyStore,
         raised |-> FALSE, n |-> 0]
NoCaught == [feed |-> 0, kind |-> "none"]

Init ==
    /\ db = EmptyStore
    /\ txn = EmptyStore
    /\ runs = 0
    /\ today = 1
    /\ needs_items = FALSE
    /\ needs_stats = FALSE
    /\ pc = "idle"
    /\ feed = 1
    /\ attempt = 0
    /\ requests = <<>>
    /\ waits = <<>>
    /\ data = NoData
    /\ error_code = NoCode
    /\ exc = NoExc
    /\ result = [f \in 1..4 |-> "pending"]
    /\ caught = NoCaught
    /\ calls = [f \in 1..4 |-> 0]
    /\ delayed = {}
    /\ snap = EmptyStore
    /\ collected_today = {}
    /\ last = NoOp
    /\ sent = 0

\* faulty variant: the try block without conn.commit()
commit_missing(committed, view) == committed

\* faulty variant: the except clause without conn.rollback()
rollback_missing(committed, view) == view

\* conn.commit() / conn.rollback(): what the connection sees afterwards
commit(committed, view) == view
rollback(committed, view) == committed

\* faulty variant: the clause written as "except (KeyError, sqlite3.Error)"
CatchesOnlyStoreErrors(e) == e.cls \in {"KeyError", "IntegrityError"}

\* "except Exception as e" of the four try blocks
Catches(e) == e.cls \in {"Exception", "KeyError", "IntegrityError"}

\* faulty variant: range(1, MAX_RETRIES + 2)
AttemptRangeOneMore == 1..(MAX_RETRIES + 1)

\* range(1, MAX_RETRIES + 1)
AttemptRange == 1..MAX_RETRIES

\* the condition guarding each feed's block (lines 685, 697, 712, 727)
Needs(f) ==
    CASE Feeds[f] = "items" -> needs_items
      [] Feeds[f] = "bank" -> check_needs_update(txn, "bank", today)
      [] Feeds[f] = "pointsmarket" ->
            check_needs_update(txn, "pointsmarket", today)
      [] Feeds[f] = "stats" -> needs_stats

\* the condition guarding time.sleep(10) (lines 698, 713, 728)
RateLimited(f) ==
    CASE Feeds[f] = "items" -> FALSE
      [] Feeds[f] = "bank" -> needs_items \/ needs_stats
      [] Feeds[f] = "pointsmarket" -> needs_items \/ needs_stats
      [] Feeds[f] = "stats" -> needs_items

ExcKind(e) ==
    CASE e.msg = FatalExc(0).msg -> "fatal"
      [] e.msg = ExhaustedExc.msg -> "exhausted"
      [] OTHER -> "other"

\* faulty variant: the script ends after the first block it runs
AdvanceToClose == pc' = "close" /\ feed' = feed

\* control leaves the block of the current feed
Advance ==
    IF feed < Len(Feeds)
    THEN pc' = "check" /\ feed' = feed + 1
    ELSE pc' = "close" /\ feed' = feed

\* lines 30, 509-682: a new invocation on date d
StartRun(d) ==
    /\ pc \in {"idle", "crashed"}
    /\ runs < MaxRuns
    /\ d = today \/ (runs > 0 /\ d = today + 1)
    /\ today' = d
    /\ needs_items' = check_needs_update(txn, "data", d)
    /\ needs_stats' = check_needs_update(txn, "stats", d)
    /\ pc' = "check"
    /\ feed' = 1
    /\ UNCHANGED <<attempt, requests, waits, data, error_code>>
    /\ exc' = NoExc
    /\ result' = [f \in 1..4 |-> "pending"]
    /\ caught' = NoCaught
    /\ calls' = [f \in 1..4 |-> 0]
    /\ delayed' = {}
    /\ snap' = db
    /\ collected_today' = IF d = today THEN collected_today ELSE {}
    /\ sent' = 0
    /\ UNCHANGED <<db, txn, runs, last>>

\* the else branches (lines 693, 707, 722, 737)
SkipFeed ==
    /\ pc = "check"
    /\ ~Needs(feed)
    /\ result' = [result EXCEPT ![feed] = "skipped"]
    /\ Advance
    /\ UNCHANGED <<collected_today, caught, db, txn, runs, today, needs_items, needs_stats, attempt,
                   requests, waits, data, error_code, exc, calls, delayed, snap, last, sent>>

\* the rate-limit sleep, the try, the collector up to its safe_api_call
EnterFeed ==
    /\ pc = "check"
    /\ Needs(feed)
    /\ delayed' = IF RateLimited(feed) THEN delayed \cup {feed} ELSE delayed
    /\ calls' = [calls EXCEPT ![feed] = @ + 1]
    /\ UNCHANGED <<attempt, requests, waits, data, error_code>>
    /\ exc' = NoExc
    /\ snap' = db
    /\ pc' = "fetch"
    /\ UNCHANGED <<collected_today, caught, db, txn, runs, today, needs_items, needs_stats, feed,
                   result, last, sent>>

\* A collector is one step of the driver: its call of safe_api_call, the
\* mapping and the INSERTs.  The call returns a payload (line 64), raises on
\* an error code outside the retryable set (line 61), or raises once the
\* loop is over (line 67); SpecFetch below steps through the call itself.
Raise(e) ==
    /\ exc' = e
    /\ pc' = "except"

FetchFatal(code) ==
    /\ pc = "fetch"
    /\ code \notin RetryableCodes
    /\ Raise(FatalExc(code))
    /\ UNCHANGED <<collected_today, caught, db, txn, runs, today, needs_items, needs_stats,
                   feed, attempt, requests, waits, data, error_code, result, calls,
                   delayed, snap, last, sent>>

FetchExhausted ==
    /\ pc = "fetch"
    /\ Raise(ExhaustedExc)
    /\ UNCHANGED <<collected_today, caught, db, txn, runs, today, needs_items, needs_stats,
                   feed, attempt, requests, waits, data, error_code, result, calls,
                   delayed, snap, last, sent>>

\* the loop of collect_items_data (lines 152-170) from position i on:
\* the store it leaves and whether an upsert raised
RECURSIVE items_loop(_, _, _, _)
items_loop(store, items, i, date_str) ==
    IF i > Len(items) THEN [store |-> store, raised |-> FALSE]
    ELSE IF upsert_item_raises(items[i])
         THEN [store |-> store, raised |-> TRUE]
         ELSE items_loop(upsert_data(upsert_item(store, items[i], date_str),
                                     items[i], date_str),
                         items, i + 1, date_str)

\* faulty variant: the items table rebuilt from the response
CollectItemsRebuilds(p) ==
    /\ pc = "fetch"
    /\ Feeds[feed] = "items"
    /\ IF ~p.key
       THEN Raise(KeyErrorExc) /\ UNCHANGED txn
       ELSE LET r == items_loop([txn EXCEPT !.items = {}], p.body, 1,
                                 today)
            IN  /\ txn' = r.store
                /\ IF r.raised THEN Raise(IntegrityExc)
                   ELSE pc' = "commit" /\ UNCHANGED exc
    /\ data' = p
    /\ UNCHANGED <<collected_today, caught, db, runs, today, needs_items, needs_stats, feed,
                   attempt, requests, waits, error_code, result, calls,
                   delayed, snap, last, sent>>

\* faulty variant: an upsert that raises only ends the loop
CollectItemsSwallows(p) ==
    /\ pc = "fetch"
    /\ Feeds[feed] = "items"
    /\ IF ~p.key
       THEN Raise(KeyErrorExc) /\ UNCHANGED txn
       ELSE LET r == items_loop(txn, p.body, 1, today)
            IN  /\ txn' = r.store
                /\ pc' = "commit" /\ UNCHANGED exc
    /\ data' = p
    /\ UNCHANGED <<collected_today, caught, db, runs, today, needs_items, needs_stats, feed,
                   attempt, requests, waits, error_code, result, calls,
                   delayed, snap, last, sent>>

\* collect_items_data with the response p (lines 149-172)
CollectItems(p) ==
    /\ pc = "fetch"
    /\ Feeds[feed] = "items"
    /\ IF ~p.key
       THEN Raise(KeyErrorExc) /\ UNCHANGED txn
       ELSE LET r == items_loop(txn, p.body, 1, today)
            IN  /\ txn' = r.store
                /\ IF r.raised THEN Raise(IntegrityExc)
                   ELSE pc' = "commit" /\ UNCHANGED exc
    /\ data' = p
    /\ UNCHANGED <<collected_today, caught, db, runs, today, needs_items, needs_stats, feed,
                   attempt, requests, waits, error_code, result, calls,
                   delayed, snap, last, sent>>

\* collect_bank_data with the response p (lines 179-198)
CollectBank(p) ==
    /\ pc = "fetch"
    /\ Feeds[feed] = "bank"
    /\ IF ~p.key
       THEN Raise(KeyErrorExc) /\ UNCHANGED txn
       ELSE /\ txn' = upsert_by_date(txn, "bank", BankRow(today, p.body))
            /\ pc' = "commit"
            /\ UNCHANGED exc
    /\ data' = p
    /\ UNCHANGED <<collected_today, caught, db, runs, today, needs_items, needs_stats, feed,
                   attempt, requests, waits, error_code, result, calls,
                   delayed, snap, last, sent>>

RECURSIVE Sum(_)
Sum(costs) == IF costs = <<>> THEN 0 ELSE Head(costs) + Sum(Tail(costs))

\* int(x / n) truncates toward zero
Trunc(x, n) == IF x >= 0 THEN x \div n ELSE -((-x) \div n)

\* faulty variant: the mean rounded up
avg_cost_ceiling(costs) ==
    IF Len(costs) > 0 THEN (Sum(costs) + Len(costs) - 1) \div Len(costs)
    ELSE 0

\* line 212
avg_cost(costs) ==
    IF Len(costs) > 0 THEN Trunc(Sum(costs), Len(costs)) ELSE 0

\* collect_pointsmarket_data with the response p (lines 207-222)
CollectPoints(p) ==
    /\ pc = "fetch"
    /\ Feeds[feed] = "pointsmarket"
    /\ IF ~p.key \/ \E i \in 1..Len(p.body) : ~p.body[i].has_cost
       THEN Raise(KeyErrorExc) /\ UNCHANGED txn
       ELSE /\ txn' = upsert_by_date(txn, "pointsmarket",
                          PointsRow(today,
                              avg_cost([i \in 1..Len(p.body) |->
                                            p.body[i].cost])))
            /\ pc' = "commit"
            /\ UNCHANGED exc
    /\ data' = p
    /\ UNCHANGED <<collected_today, caught, db, runs, today, needs_items, needs_stats, feed,
                   attempt, requests, waits, error_code, result, calls,
                   delayed, snap, last, sent>>

\* datetime.fromtimestamp(ts).date() (line 235)
stats_date(ts) == ts \div TicksPerDay

\* faulty variant: the row stored under the collection date
CollectStatsKeyedByToday(p) ==
    /\ pc = "fetch"
    /\ Feeds[feed] = "stats"
    /\ IF ~p.key \/ ~p.body.has_timestamp
       THEN Raise(KeyErrorExc) /\ UNCHANGED txn
       ELSE /\ txn' = upsert_by_date(txn, "stats",
                          StatsRow(today, p.body))
            /\ pc' = "commit"
            /\ UNCHANGED exc
    /\ data' = p
    /\ UNCHANGED <<collected_today, caught, db, runs, today, needs_items, needs_stats, feed,
                   attempt, requests, waits, error_code, result, calls,
                   delayed, snap, last, sent>>

\* collect_stats_data with the response p (lines 231-500)
CollectStats(p) ==
    /\ pc = "fetch"
    /\ Feeds[feed] = "stats"
    /\ IF ~p.key \/ ~p.body.has_timestamp
       THEN Raise(KeyErrorExc) /\ UNCHANGED txn
       ELSE /\ txn' = upsert_by_date(txn, "stats",
                          StatsRow(stats_date(p.body.timestamp), p.body))
            /\ pc' = "commit"
            /\ UNCHANGED exc
    /\ data' = p
    /\ UNCHANGED <<collected_today, caught, db, runs, today, needs_items, needs_stats, feed,
                   attempt, requests, waits, error_code, result, calls,
                   delayed, snap, last, sent>>

\* conn.commit() (lines 688, 702, 717, 732)
Commit ==
    /\ pc = "commit"
    /\ db' = commit(db, txn)
    /\ result' = [result EXCEPT ![feed] = "committed"]
    /\ Advance
    /\ exc' = NoExc
    /\ data' = NoData
    /\ UNCHANGED <<attempt, requests, waits, error_code>>
    /\ UNCHANGED <<collected_today, caught, txn, runs, today, needs_items, needs_stats, calls,
                   delayed, snap, last, sent>>

\* faulty variant: the block run again until it commits
ExceptRetries ==
    /\ pc = "except"
    /\ result' = [result EXCEPT ![feed] = "failed"]
    /\ caught' = [feed |-> feed, kind |-> ExcKind(exc)]
    /\ IF Catches(exc)
       THEN txn' = rollback(db, txn) /\ pc' = "check" /\ feed' = feed
       ELSE txn' = db /\ pc' = "crashed" /\ feed' = feed
    /\ exc' = NoExc
    /\ data' = NoData
    /\ UNCHANGED <<attempt, requests, waits, error_code>>
    /\ UNCHANGED <<collected_today, db, runs, today, needs_items, needs_stats, calls,
                   delayed, snap, last, sent>>

\* an exception leaves the collector: the except clause logs it and rolls
\* back (lines 690-692, 704-706, 719-721, 734-736); an exception the clause
\* does not catch ends the process
Except ==
    /\ pc = "except"
    /\ result' = [result EXCEPT ![feed] = "failed"]
    /\ caught' = [feed |-> feed, kind |-> ExcKind(exc)]
    /\ IF Catches(exc)
       THEN txn' = rollback(db, txn) /\ Advance
       ELSE txn' = db /\ pc' = "crashed" /\ feed' = feed
    /\ exc' = NoExc
    /\ data' = NoData
    /\ UNCHANGED <<attempt, requests, waits, error_code>>
    /\ UNCHANGED <<collected_today, db, runs, today, needs_items, needs_stats, calls,
                   delayed, snap, last, sent>>

\* conn.close() (lines 741-742): the invocation ends normally
Close ==
    /\ pc = "close"
    /\ txn' = db
    /\ runs' = runs + 1
    /\ pc' = "idle"
    /\ needs_items' = FALSE
    /\ needs_stats' = FALSE
    /\ feed' = 1
    /\ result' = [f \in 1..4 |-> "pending"]
    /\ caught' = NoCaught
    /\ calls' = [f \in 1..4 |-> 0]
    /\ delayed' = {}
    /\ snap' = db
    /\ collected_today' =
           collected_today \cup {f \in 1..4 : result[f] = "committed"}
    /\ UNCHANGED <<db, today, attempt, requests, waits, data, error_code, exc,
                   last, sent>>

Next ==
    \/ \E d \in Dates : StartRun(d)
    \/ SkipFeed
    \/ EnterFeed
    \/ \E code \in SampleCodes : FetchFatal(code)
    \/ FetchExhausted
    \/ \E p \in Payloads(feed) : CollectItems(p)
    \/ \E p \in Payloads(feed) : CollectBank(p)
    \/ \E p \in Payloads(feed) : CollectPoints(p)
    \/ \E p \in Payloads(feed) : CollectStats(p)
    \/ Commit
    \/ Except
    \/ Close

Spec == Init /\ [][Next]_vars


(* --------------------- safe_api_call, step by step -------------------- *)
InitFetch == Init

\* line 38: a call for the url of feed f
Call(f) ==
    /\ pc \in {"idle", "returned", "raised"}
    /\ feed' = f
    /\ attempt' = 1
    /\ requests' = <<>>
    /\ waits' = <<>>
    /\ data' = NoData
    /\ exc' = NoExc
    /\ pc' = "request"
    /\ error_code' = NoCode
    /\ sent' = 0
    /\ UNCHANGED <<collected_today, db, txn, runs, today, needs_items, needs_stats,
                   result, caught, calls, delayed, snap, last>>

Request(n, outcome) == [attempt |-> n, outcome |-> outcome]

\* faulty variant: no sleep once no attempt is left
BackoffSkipsLastSleep(outcome) ==
    /\ requests' = Append(requests, Request(attempt, outcome))
    /\ IF attempt + 1 \in AttemptRange
       THEN /\ waits' = Append(waits, RETRY_WAIT * attempt)
            /\ attempt' = attempt + 1 /\ pc' = "request" /\ exc' = exc
       ELSE /\ waits' = waits
            /\ attempt' = attempt /\ pc' = "raised" /\ exc' = ExhaustedExc
    /\ sent' = sent + 1
    /\ UNCHANGED <<collected_today, db, txn, runs, today, needs_items, needs_stats, feed,
                   data, result, caught, calls, delayed, snap, last>>

\* faulty variant: time.sleep(RETRY_WAIT), the attempt number left out
BackoffFlat(outcome) ==
    /\ requests' = Append(requests, Request(attempt, outcome))
    /\ waits' = Append(waits, RETRY_WAIT)
    /\ IF attempt + 1 \in AttemptRange
       THEN attempt' = attempt + 1 /\ pc' = "request" /\ exc' = exc
       ELSE attempt' = attempt /\ pc' = "raised" /\ exc' = ExhaustedExc
    /\ sent' = sent + 1
    /\ UNCHANGED <<collected_today, db, txn, runs, today, needs_items, needs_stats, feed,
                   data, result, caught, calls, delayed, snap, last>>

\* faulty variant: time.sleep(RETRY_WAIT ** attempt)
BackoffPower(outcome) ==
    /\ requests' = Append(requests, Request(attempt, outcome))
    /\ waits' = Append(waits, RETRY_WAIT ^ attempt)
    /\ IF attempt + 1 \in AttemptRange
       THEN attempt' = attempt + 1 /\ pc' = "request" /\ exc' = exc
       ELSE attempt' = attempt /\ pc' = "raised" /\ exc' = ExhaustedExc
    /\ sent' = sent + 1
    /\ UNCHANGED <<collected_today, db, txn, runs, today, needs_items, needs_stats, feed,
                   data, result, caught, calls, delayed, snap, last>>

\* time.sleep(RETRY_WAIT * attempt); continue  (lines 46-47, 57-58), and
\* line 67 when the loop is over
Backoff(outcome) ==
    /\ requests' = Append(requests, Request(attempt, outcome))
    /\ waits' = Append(waits, RETRY_WAIT * attempt)
    /\ IF attempt + 1 \in AttemptRange
       THEN attempt' = attempt + 1 /\ pc' = "request" /\ exc' = exc
       ELSE attempt' = attempt /\ pc' = "raised" /\ exc' = ExhaustedExc
    /\ sent' = sent + 1
    /\ UNCHANGED <<collected_today, db, txn, runs, today, needs_items, needs_stats, feed,
                   data, result, caught, calls, delayed, snap, last>>

\* requests.get or response.json raises (lines 40-47)
RequestFails ==
    /\ pc = "request"
    /\ attempt \in AttemptRange
    /\ error_code' = NoCode
    /\ Backoff("transport")

\* faulty variant: code 5 left out of the set
RetryableWithoutFive(code) == code \in RetryableCodes \ {5}

\* line 55
Retryable(code) == code \in RetryableCodes

\* the response carries an error object with a retryable code (lines 50-58)
RequestRetryable(code) ==
    /\ pc = "request"
    /\ attempt \in AttemptRange
    /\ Retryable(code)
    /\ error_code' = code
    /\ Backoff("retryable")

\* the response carries an error object with another code (lines 59-61)
RequestFatal(code) ==
    /\ pc = "request"
    /\ attempt \in AttemptRange
    /\ ~Retryable(code)
    /\ requests' = Append(requests, Request(attempt, "fatal"))
    /\ exc' = FatalExc(code)
    /\ error_code' = code
    /\ pc' = "raised"
    /\ sent' = sent + 1
    /\ UNCHANGED <<collected_today, db, txn, runs, today, needs_items, needs_stats, feed,
                   attempt, waits, data, result, caught, calls, delayed,
                   snap, last>>

\* faulty variant: the loop goes on after a response without error
RequestSucceedsGoesOn(p) ==
    /\ pc = "request"
    /\ attempt \in AttemptRange
    /\ requests' = Append(requests, Request(attempt, "ok"))
    /\ data' = p
    /\ error_code' = NoCode
    /\ pc' = "request"
    /\ attempt' = attempt + 1
    /\ sent' = sent + 1
    /\ UNCHANGED <<collected_today, db, txn, runs, today, needs_items, needs_stats, feed,
                   waits, exc, result, caught, calls, delayed,
                   snap, last>>

\* the response carries no error object (line 64)
RequestSucceeds(p) ==
    /\ pc = "request"
    /\ attempt \in AttemptRange
    /\ requests' = Append(requests, Request(attempt, "ok"))
    /\ data' = p
    /\ error_code' = NoCode
    /\ pc' = "returned"
    /\ sent' = sent + 1
    /\ UNCHANGED <<collected_today, db, txn, runs, today, needs_items, needs_stats, feed,
                   attempt, waits, exc, result, caught, calls, delayed,
                   snap, last>>

NextFetch ==
    \/ \E f \in 1..Len(Feeds) : Call(f)
    \/ RequestFails
    \/ \E code \in ErrorCodes : RequestRetryable(code)
    \/ \E code \in ErrorCodes : RequestFatal(code)
    \/ \E p \in Payloads(feed) : RequestSucceeds(p)

SpecFetch == InitFetch /\ [][NextFetch]_vars

(* ------------- a run with safe_api_call stepped through --------------- *)
\* what a collector does with the response p of its feed (lines 149-172,
\* 179-198, 207-222, 231-500): the store it leaves and the exception, if
\* any, that leaves it
collector(f, store, p, date_str) ==
    CASE Feeds[f] = "items" ->
            IF ~p.key THEN [store |-> store, exc |-> KeyErrorExc]
            ELSE LET r == items_loop(store, p.body, 1, date_str)
                 IN  [store |-> r.store,
                      exc |-> IF r.raised THEN IntegrityExc ELSE NoExc]
      [] Feeds[f] = "bank" ->
            IF ~p.key THEN [store |-> store, exc |-> KeyErrorExc]
            ELSE [store |-> upsert_by_date(store, "bank",
                                BankRow(date_str, p.body)),
                  exc |-> NoExc]
      [] Feeds[f] = "pointsmarket" ->
            IF ~p.key \/ \E i \in 1..Len(p.body) : ~p.body[i].has_cost
            THEN [store |-> store, exc |-> KeyErrorExc]
            ELSE [store |-> upsert_by_date(store, "pointsmarket",
                                PointsRow(date_str,
                                    avg_cost([i \in 1..Len(p.body) |->
                                                  p.body[i].cost]))),
                  exc |-> NoExc]
      [] Feeds[f] = "stats" ->
            IF ~p.key \/ ~p.body.has_timestamp
            THEN [store |-> store, exc |-> KeyErrorExc]
            ELSE [store |-> upsert_by_date(store, "stats",
                                StatsRow(stats_date(p.body.timestamp),
                                         p.body)),
                  exc |-> NoExc]

\* a response the collector of feed f stores without raising, its
\* timestamp within date_str
GoodPayload(f, date_str) ==
    Payload(CASE Feeds[f] = "items" ->
                    [i \in 1..MaxItemId |-> Entry(i, MetaA, PriceA)]
              [] Feeds[f] = "bank" -> BankA
              [] Feeds[f] = "pointsmarket" ->
                    <<Listing(100), Listing(200), Listing(300)>>
              [] Feeds[f] = "stats" ->
                    [has_timestamp |-> TRUE,
                     timestamp |-> TicksPerDay * date_str,
                     users_total |-> 1, total_statenhancers_used |-> 1])

\* the database file of line 509 when earlier invocations of date_str
\* committed the feeds of S among the first f
RECURSIVE stored_by(_, _, _)
stored_by(S, f, date_str) ==
    IF f = 0 THEN EmptyStore
    ELSE LET s == stored_by(S, f - 1, date_str)
         IN  IF f \in S
             THEN collector(f, s, GoodPayload(f, date_str), date_str).store
             ELSE s

\* the last invocation explored, on the last date: it opens a database
\* that holds the rows of the feeds committed earlier on that date
InitRun ==
    \E S \in SUBSET (1..Len(Feeds)) :
        /\ db = stored_by(S, Len(Feeds), MaxDate)
        /\ txn = db
        /\ snap = db
        /\ collected_today = S
        /\ runs = MaxRuns - 1
        /\ today = MaxDate
        /\ needs_items = FALSE
        /\ needs_stats = FALSE
        /\ pc = "idle"
        /\ feed = 1
        /\ attempt = 0
        /\ requests = <<>>
        /\ waits = <<>>
        /\ data = NoData
        /\ error_code = NoCode
        /\ exc = NoExc
        /\ result = [f \in 1..4 |-> "pending"]
        /\ caught = NoCaught
        /\ calls = [f \in 1..4 |-> 0]
        /\ delayed = {}
        /\ last = NoOp
        /\ sent = 0

\* the collector calls safe_api_call (lines 150, 180, 208, 232)
CallFromCollector ==
    /\ pc = "fetch"
    /\ attempt' = 1
    /\ requests' = <<>>
    /\ waits' = <<>>
    /\ error_code' = NoCode
    /\ pc' = "request"
    /\ UNCHANGED <<collected_today, db, txn, runs, today, needs_items, needs_stats, feed,
                   data, exc, result, caught, calls, delayed, snap, last, sent>>

\* safe_api_call raised (lines 61, 67): the exception leaves the collector
CallRaises ==
    /\ pc = "raised"
    /\ pc' = "except"
    /\ attempt' = 0
    /\ requests' = <<>>
    /\ waits' = <<>>
    /\ error_code' = NoCode
    /\ UNCHANGED <<collected_today, db, txn, runs, today, needs_items, needs_stats, feed,
                   data, exc, result, caught, calls, delayed, snap, last, sent>>

\* safe_api_call returned (line 64): the collector maps and stores the
\* response
CallReturns ==
    /\ pc = "returned"
    /\ LET r == collector(feed, txn, data, today)
       IN  /\ txn' = r.store
           /\ IF r.exc = NoExc THEN pc' = "commit" /\ UNCHANGED exc
              ELSE Raise(r.exc)
    /\ attempt' = 0
    /\ requests' = <<>>
    /\ waits' = <<>>
    /\ error_code' = NoCode
    /\ UNCHANGED <<collected_today, db, runs, today, needs_items, needs_stats, feed,
                   data, result, caught, calls, delayed, snap, last, sent>>

\* the failed attempts of the current call, if any, were all of one kind:
\* the runs are explored with calls whose failures are alike (SpecFetch
\* mixes them)
FailuresAlike(outcome) ==
    \A i \in 1..Len(requests) : requests[i].outcome = outcome

\* the statements of one invocation, from its first block to conn.close()
RunSteps ==
    \/ SkipFeed
    \/ EnterFeed
    \/ CallFromCollector
    \/ FailuresAlike("transport") /\ RequestFails
    \/ \E code \in SampleCodes :
           FailuresAlike("retryable") /\ RequestRetryable(code)
    \/ \E code \in SampleCodes : RequestFatal(code)
    \/ \E p \in Payloads(feed) : RequestSucceeds(p)
    \/ CallRaises
    \/ CallReturns
    \/ Commit
    \/ Except
    \/ Close

NextRun ==
    \/ \E d \in Dates : StartRun(d)
    \/ RunSteps

\* every request returns or times out (timeout=10, line 41) and the script
\* is sequential: a statement that can run does run
SpecRun == InitRun /\ [][NextRun]_vars /\ WF_vars(RunSteps)

(* ------------------------ upsert_item on its own ---------------------- *)
\* descriptive fields of a record: MetaA with at most one field changed to
\* another value or to NULL
DescChoices == OneOff(MetaA, DescFields, {"b", NULL})

ItemArgs == {[m EXCEPT !.id = i] : i \in ItemIds,
                 m \in {[id |-> 0] @@ d : d \in DescChoices}}

\* a call upsert_item(cursor, item, d)
CallUpsertItem(item, d) ==
    /\ last.n < MaxItemOps
    /\ txn' = IF upsert_item_raises(item) THEN txn
              ELSE upsert_item(txn, item, d)
    /\ last' = [kind |-> "upsert_item", arg |-> item, date |-> d,
                pre |-> txn, raised |-> upsert_item_raises(item),
                n |-> last.n + 1]
    /\ UNCHANGED driverVars

NextItems == \E item \in ItemArgs, d \in Dates : CallUpsertItem(item, d)

SpecItems == Init /\ [][NextItems]_vars

(* ----------------------- fact upserts on their own -------------------- *)
DataArgs == {[id |-> 0] @@ pr : pr \in OneOff(PriceA, PriceFields, {1})}
BankArgs == OneOff(BankA, {"w1", "w2", "m1", "m2", "m3"}, {2})
StatsA == [users_total |-> 1, total_statenhancers_used |-> 1]
StatsArgs == OneOff(StatsA, {"users_total", "total_statenhancers_used"}, {2})
CostArgs == {0, 1, 200}

FactDone(kind, arg, d) ==
    last' = [kind |-> kind, arg |-> arg, date |-> d, pre |-> txn,
             raised |-> FALSE, n |-> last.n + 1]

\* a call upsert_data(cursor, item, d)
CallUpsertData(item, d) ==
    /\ last.n < MaxFactOps
    /\ txn' = upsert_data(txn, item, d)
    /\ FactDone("data", item, d)
    /\ UNCHANGED driverVars

\* the INSERT of collect_bank_data for date d
InsertBank(bank, d) ==
    /\ last.n < MaxFactOps
    /\ txn' = upsert_by_date(txn, "bank", BankRow(d, bank))
    /\ FactDone("bank", bank, d)
    /\ UNCHANGED driverVars

\* the INSERT of collect_pointsmarket_data for date d
InsertPoints(cost, d) ==
    /\ last.n < MaxFactOps
    /\ txn' = upsert_by_date(txn, "pointsmarket", PointsRow(d, cost))
    /\ FactDone("pointsmarket", cost, d)
    /\ UNCHANGED driverVars

\* the INSERT of collect_stats_data for date d
InsertStats(stats, d) ==
    /\ last.n < MaxFactOps
    /\ txn' = upsert_by_date(txn, "stats", StatsRow(d, stats))
    /\ FactDone("stats", stats, d)
    /\ UNCHANGED driverVars

NextFacts ==
    \/ \E i \in ItemIds, a \in DataArgs, d \in Dates :
           CallUpsertData([a EXCEPT !.id = i], d)
    \/ \E b \in BankArgs, d \in Dates : InsertBank(b, d)
    \/ \E c \in CostArgs, d \in Dates : InsertPoints(c, d)
    \/ \E st \in StatsArgs, d \in Dates : InsertStats(st, d)

SpecFacts == Init /\ [][NextFacts]_vars


(* ------------- collect_pointsmarket_data on its own ------------------ *)
ListingCosts == {1, 100, 200, 300}

\* data["pointsmarket"]: up to MaxListings listings, with or without "cost"
ListingSets ==
    UNION {[1..n -> {Listing(c) : c \in ListingCosts} \cup {NoCost}] :
               n \in 0..MaxListings}

\* lines 211: the costs of the listings, in order
listing_costs(body) == [i \in 1..Len(body) |-> body[i].cost]

\* collect_pointsmarket_data (lines 207-222) on the response p for today
CallCollectPoints(p) ==
    /\ data' = Payload(p)
    /\ IF \E i \in 1..Len(p) : ~p[i].has_cost
       THEN exc' = KeyErrorExc /\ txn' = txn
       ELSE /\ exc' = NoExc
            /\ txn' = upsert_by_date(txn, "pointsmarket",
                          PointsRow(today, avg_cost(listing_costs(p))))
    /\ UNCHANGED <<db, runs, today, needs_items, needs_stats, pc, feed,
                   attempt, requests, waits, error_code, result, caught,
                   calls, delayed, snap, collected_today, last, sent>>

NextPoints == \E p \in ListingSets : CallCollectPoints(p)

SpecPoints == Init /\ [][NextPoints]_vars

(* ------------------------------ the claims ---------------------------- *)
\* the feeds after the one whose exception the driver caught last
LaterFeeds == {g \in 1..Len(Feeds) : g > caught.feed}

\* the driver has just left the block of the feed whose exception it caught
JustLeftCaught ==
    \/ pc = "check" /\ feed = caught.feed + 1
    \/ pc = "close" /\ caught.feed = Len(Feeds)

C3_FeedIsolation ==
    /\ caught.kind = "other" =>
          /\ pc # "crashed"
          /\ feed > caught.feed \/ pc = "close"
          /\ result[caught.feed] = "failed"
          /\ JustLeftCaught => txn = db /\ db = snap
    /\ pc \in {"check", "close"} => txn = db

\* the stats collector failed on its payload after bank had committed its
\* row in the same run: the bank row is there, no stats row is
C3_Witness ==
    /\ caught = [feed |-> 4, kind |-> "other"]
    /\ result[2] = "committed"
    /\ \E r \in db.bank : r.date = today
    /\ db.stats = {}
    /\ txn = db
    /\ pc = "close"

\* the table check_needs_update is called with for each feed
FeedTable(f) == IF Feeds[f] = "items" THEN "data" ELSE Feeds[f]

HasRow(store, f, d) == \E r \in store[FeedTable(f)] : r.date = d

\* C4: check_needs_update is true exactly when the table holds no row of
\* that date; a feed is fetched in a run only if its table held no row for
\* today when its block was reached, it is then fetched once, and a feed
\* whose table holds a row for today is skipped with no call of
\* safe_api_call.
C4_FetchIffNoRowToday ==
    /\ \A f \in 1..Len(Feeds), d \in Dates :
          check_needs_update(txn, FeedTable(f), d) <=> ~HasRow(txn, f, d)
    /\ pc = "check" => (Needs(feed) <=> ~HasRow(txn, feed, today))
    /\ pc \in {"fetch", "commit", "except"} =>
          calls[feed] = 1 /\ ~HasRow(snap, feed, today)
    /\ \A f \in 1..Len(Feeds) :
          /\ calls[f] <= 1
          /\ result[f] = "skipped" => calls[f] = 0 /\ HasRow(db, f, today)
          /\ result[f] \in {"committed", "failed"} => calls[f] = 1
          /\ (result[f] = "pending" /\ (f > feed \/ (pc = "check" /\ f = feed)))
                => calls[f] = 0

\* a second run of the day: bank has today's row and was skipped without a
\* call, pointsmarket had none and was fetched
C4_Witness ==
    /\ runs = 1
    /\ result[2] = "skipped"
    /\ calls[2] = 0
    /\ HasRow(db, 2, today)
    /\ calls[3] = 1
    /\ result[3] = "committed"

\* C5 as stated: a feed that an earlier run of the same wall-clock date
\* fetched and committed is skipped, with no request, by every later run of
\* that date.
C5_CollectedTodayIsSkipped ==
    pc \in {"check", "fetch", "commit", "except", "close"} =>
        \A f \in collected_today :
            calls[f] = 0 /\ result[f] \in {"pending", "skipped"}


\* the stored version of the item the last upsert_item call was about
StoredBefore == {r \in last.pre.items : r.id = last.arg.id}

SameDesc(row, item) == \A f \in DescFields : row[f] = item[f]

\* C6: upsert_item on a stored identifier with seven descriptive fields equal
\* to the stored ones leaves the whole store as it was, last_update
\* included, whatever date is passed; and a stored item's last_update
\* changes only in a call for that identifier in which some descriptive
\* field differs from the stored version.
C6_IdenticalUpsertIsNoOp ==
    last.kind = "upsert_item" =>
        /\ \A r \in StoredBefore : SameDesc(r, last.arg) => txn = last.pre
        /\ \A r \in last.pre.items, r2 \in txn.items :
              r2.id = r.id /\ r2.last_update # r.last_update =>
                  r.id = last.arg.id /\ ~SameDesc(r, last.arg)

\* the item was stored on an earlier date, is upserted unchanged with a
\* later date, and the store is as before
C6_Witness ==
    /\ last.kind = "upsert_item"
    /\ ~last.raised
    /\ \E r \in StoredBefore :
          /\ SameDesc(r, last.arg)
          /\ r \in txn.items
          /\ last.date > r.last_update
    /\ txn = last.pre

\* C7 as stated: upsert_item on a stored identifier with a record that
\* differs from the stored version in at least one descriptive field leaves
\* the row holding exactly the new record, with last_update set to the
\* collection date, for all values the table accepts (a null name is not
\* accepted), a field null on one side and non-null on the other included.
C7_DifferingUpsertOverwrites ==
    last.kind = "upsert_item" /\ ~last.raised =>
        \A r \in StoredBefore :
            ~SameDesc(r, last.arg) =>
                {r2 \in txn.items : r2.id = last.arg.id}
                    = {ItemRow(last.arg, last.date)}


FactKinds == {"data", "bank", "pointsmarket", "stats"}

\* the row the last fact upsert was called to store
LastRow ==
    CASE last.kind = "data" -> DataRow(last.arg, last.date)
      [] last.kind = "bank" -> BankRow(last.date, last.arg)
      [] last.kind = "pointsmarket" -> PointsRow(last.date, last.arg)
      [] last.kind = "stats" -> StatsRow(last.date, last.arg)

SameKey(kind, r1, r2) ==
    r1.date = r2.date /\ (kind = "data" => r1.id = r2.id)

KeyUnique(store) ==
    \A t \in FactKinds : \A r1, r2 \in store[t] :
        SameKey(t, r1, r2) => r1 = r2

\* C8: each of bank, pointsmarket and stats holds at most one row per date
\* and data at most one row per (id, date); a fact upsert leaves its row
\* under its key, leaves every row of another key as it was, and adds a row
\* only if the key had none.
C8_OneRowPerKey ==
    /\ KeyUnique(txn)
    /\ last.kind \in FactKinds =>
          LET t == last.kind
              old == {r \in last.pre[t] : SameKey(t, r, LastRow)}
          IN  /\ txn[t] = (last.pre[t] \ old) \cup {LastRow}
              /\ Cardinality(txn[t]) =
                     Cardinality(last.pre[t]) + (IF old = {} THEN 1 ELSE 0)
              /\ \A u \in FactKinds \ {t} : txn[u] = last.pre[u]

\* a second upsert for a key that had a row with other values: the row is
\* replaced, the table keeps its size
C8_Witness ==
    /\ last.kind \in FactKinds
    /\ \E r \in last.pre[last.kind] :
          SameKey(last.kind, r, LastRow) /\ r # LastRow /\ r \notin txn[last.kind]
    /\ LastRow \in txn[last.kind]
    /\ Cardinality(txn[last.kind]) = Cardinality(last.pre[last.kind])

\* the last fact upsert applied once more, with the same arguments
Reapplied(store) ==
    CASE last.kind = "data" -> upsert_data(store, last.arg, last.date)
      [] last.kind \in {"bank", "pointsmarket", "stats"} ->
             upsert_by_date(store, last.kind, LastRow)

\* C9: a fact upsert applied a second time with the same arguments leaves
\* the store as the first application left it.
C9_FactUpsertIdempotent ==
    last.kind \in FactKinds =>
        /\ Reapplied(txn) = txn
        /\ Reapplied(Reapplied(last.pre)) = Reapplied(last.pre)
        /\ txn = Reapplied(last.pre)

\* a price upsert that replaced the values of an existing row, and whose
\* repetition changes nothing
C9_Witness ==
    /\ last.kind = "data"
    /\ txn # last.pre
    /\ \E r \in last.pre.data : SameKey("data", r, LastRow) /\ r # LastRow
    /\ Reapplied(txn) = txn


Transient == {"transport", "retryable"}

\* C10: one call of safe_api_call makes at most MAX_RETRIES requests,
\* numbered 1, 2, ... in order, a transport failure and a retryable code
\* advancing the same counter and each followed by a wait of RETRY_WAIT
\* times the attempt number; the call raises the retries-exhausted exception
\* exactly when MAX_RETRIES requests were made and all were transient, and
\* that exception differs (by its message) from the fatal one.
C10_AtMostFiveAttempts ==
    /\ Len(requests) <= MAX_RETRIES
    /\ \A i \in 1..Len(requests) :
          /\ requests[i].attempt = i
          /\ i < Len(requests) => requests[i].outcome \in Transient
    /\ Len(waits) =
           Cardinality({i \in 1..Len(requests) :
                            requests[i].outcome \in Transient})
    /\ \A i \in 1..Len(waits) : waits[i] = RETRY_WAIT * i
    /\ pc = "request" => attempt = Len(requests) + 1 /\ attempt \in 1..MAX_RETRIES
    /\ (pc = "raised" /\ exc = ExhaustedExc) <=>
           /\ Len(requests) = MAX_RETRIES
           /\ \A i \in 1..MAX_RETRIES : requests[i].outcome \in Transient
    /\ pc = "raised" /\ exc # ExhaustedExc =>
           /\ requests[Len(requests)].outcome = "fatal"
           /\ exc \in {FatalExc(code) : code \in ErrorCodes \ RetryableCodes}
    /\ \A code \in ErrorCodes : FatalExc(code).msg # ExhaustedExc.msg

\* five failed requests, some by transport and some by a retryable code,
\* after which the call has raised the retries-exhausted exception
C10_Witness ==
    /\ pc = "raised"
    /\ exc = ExhaustedExc
    /\ Len(requests) = MAX_RETRIES
    /\ requests[MAX_RETRIES].attempt = MAX_RETRIES
    /\ \E i, j \in 1..MAX_RETRIES :
          requests[i].outcome = "transport" /\ requests[j].outcome = "retryable"


LastOutcome == requests[Len(requests)].outcome

\* C11: a response with an error code of the retryable set is followed by a
\* wait and, while attempts remain, by the next attempt (after the last
\* attempt by the retries-exhausted exception); a response with any other
\* code ends the call at once with the fatal exception carrying that code,
\* at whichever attempt it comes, with no wait and no further request.
C11_ErrorClassification ==
    Len(requests) > 0 =>
        /\ LastOutcome = "retryable" =>
              /\ error_code \in RetryableCodes
              /\ Len(waits) = Len(requests)
              /\ IF Len(requests) < MAX_RETRIES
                 THEN pc = "request" /\ attempt = Len(requests) + 1
                 ELSE pc = "raised" /\ exc = ExhaustedExc
        /\ LastOutcome = "fatal" =>
              /\ error_code \in ErrorCodes \ RetryableCodes
              /\ pc = "raised"
              /\ exc = FatalExc(error_code)
              /\ Len(waits) = Len(requests) - 1
        /\ error_code # NoCode =>
              /\ LastOutcome \in {"retryable", "fatal"}
              /\ error_code \in RetryableCodes <=> LastOutcome = "retryable"

\* code 5 on the first two attempts was retried, code 2 on the third ended
\* the call
C11_Witness ==
    /\ Len(requests) = 3
    /\ requests[1].outcome = "retryable"
    /\ requests[2].outcome = "retryable"
    /\ LastOutcome = "fatal"
    /\ error_code = 2
    /\ exc = FatalExc(2)
    /\ waits = <<RETRY_WAIT, RETRY_WAIT * 2>>
    /\ pc = "raised"


\* C12: the wait after failed attempt n of a call is RETRY_WAIT * n = 60 * n,
\* so the waits of one call increase strictly; a call that returns at
\* attempt 5 has slept exactly 60, 120, 180, 240, in that order, and holds
\* the payload of that attempt.
C12_LinearBackoff ==
    /\ RETRY_WAIT = 60
    /\ \A i \in 1..Len(waits) :
          /\ waits[i] = 60 * requests[i].attempt
          /\ requests[i].outcome \in Transient
          /\ i > 1 => waits[i] > waits[i - 1]
    /\ pc = "returned" =>
          /\ Len(waits) = Len(requests) - 1
          /\ LastOutcome = "ok"
          /\ data \in Payloads(feed)
          /\ Len(requests) = 5 => waits = <<60, 120, 180, 240>>

\* transport failures on attempts 1 to 4, then a response without error:
\* the call has returned its payload after the four waits
C12_Witness ==
    /\ pc = "returned"
    /\ Len(requests) = 5
    /\ \A i \in 1..4 : requests[i].outcome = "transport"
    /\ requests[5] = Request(5, "ok")
    /\ waits = <<60, 120, 180, 240>>
    /\ data \in Payloads(feed) \ {NoData}


\* C13: a request answered without an error object is the last request of
\* its call: the call has returned, every earlier request of the call had
\* failed transiently, no wait follows it, and what the call returns is the
\* payload of a response that carried no error code.
C13_ReturnsAtFirstSuccess ==
    /\ \A i \in 1..Len(requests) :
          requests[i].outcome = "ok" =>
              /\ i = Len(requests)
              /\ pc = "returned"
              /\ Len(waits) = i - 1
              /\ \A j \in 1..(i - 1) : requests[j].outcome \in Transient
    /\ pc = "returned" =>
          /\ LastOutcome = "ok"
          /\ error_code = NoCode
          /\ exc = NoExc
          /\ data \in Payloads(feed)

\* a retryable code on attempt 1, a clean response on attempt 2: returned
\* after one wait and two requests
C13_Witness ==
    /\ pc = "returned"
    /\ Len(requests) = 2
    /\ requests[1] = Request(1, "retryable")
    /\ requests[2] = Request(2, "ok")
    /\ waits = <<RETRY_WAIT>>
    /\ error_code = NoCode
    /\ data \in Payloads(feed) \ {NoData}


\* the feeds before f that called safe_api_call in this run
FetchedBefore(f) == {g \in 1..(f - 1) : calls[g] > 0}

\* C14 as stated: in a run, every feed that fetches after another feed of
\* the run has fetched is preceded by the time.sleep(10).
C14_DelayAfterEarlierFetch ==
    \A f \in 1..Len(Feeds) :
        calls[f] > 0 /\ FetchedBefore(f) # {} => f \in delayed

\* C20 as stated: a feed is preceded by the time.sleep(10) only if an
\* earlier feed of the run has fetched; the first feed of a run that
\* fetches is not delayed.
C20_DelayOnlyAfterEarlierFetch ==
    \A f \in delayed : FetchedBefore(f) # {}


\* C15: the driver handles the feeds in the order of Feeds, one at a time:
\* while it is at a feed every earlier feed of the run has been skipped,
\* committed or rolled back and no later feed has been touched; when a
\* collector starts, the connection holds no uncommitted write; and no feed
\* is collected twice in a run.
C15_SequentialFeeds ==
    /\ pc \in {"check", "fetch", "commit", "except", "close"} =>
          /\ \A g \in 1..(feed - 1) :
                result[g] \in {"skipped", "committed", "failed"}
          /\ \A g \in (feed + 1)..Len(Feeds) :
                result[g] = "pending" /\ calls[g] = 0
    /\ pc \in {"check", "fetch"} => txn = db
    /\ pc = "fetch" => result[feed] = "pending" /\ calls[feed] = 1
    /\ \A f \in 1..Len(Feeds) :
          /\ calls[f] <= 1
          /\ result[f] = "committed" => calls[f] = 1

\* pointsmarket's collector starts after items committed and bank was
\* rolled back, with stats untouched
C15_Witness ==
    /\ pc = "fetch"
    /\ feed = 3
    /\ result = <<"committed", "failed", "pending", "pending">>
    /\ calls = <<1, 1, 1, 0>>
    /\ db.data # {}
    /\ db.bank = {}
    /\ txn = db


\* the avg_point_cost values stored for today
StoredAverages == {r.avg_point_cost : r \in {x \in txn.pointsmarket : x.date = today}}

\* C16: after collect_pointsmarket_data on a response whose listings all
\* carry a cost, today's pointsmarket row holds the mean of the costs
\* truncated to an integer (the a with a * n <= sum < (a + 1) * n), and 0,
\* with no exception, when there is no listing; costs 100, 200, 300 give
\* 200.
C16_TruncatedMean ==
    data.key /\ (\A i \in 1..Len(data.body) : data.body[i].has_cost) =>
        LET n == Len(data.body)
            total == Sum(listing_costs(data.body))
        IN  /\ exc = NoExc
            /\ Cardinality(StoredAverages) = 1
            /\ \A a \in StoredAverages :
                  /\ n = 0 => a = 0
                  /\ n > 0 => a * n <= total /\ total < (a + 1) * n
                  /\ data.body = <<Listing(100), Listing(200), Listing(300)>>
                        => a = 200

\* the empty listing set was collected: the row holds 0 and nothing was
\* raised
C16_Witness ==
    /\ data = Payload(<<>>)
    /\ exc = NoExc
    /\ txn.pointsmarket = {PointsRow(today, 0)}


\* C17: when collect_stats_data has run on a response, the stats row it
\* wrote is the one dated by the response's timestamp; rows of other dates
\* are as committed, and if that date is not today no stats row dated today
\* exists.
C17_StatsKeyedByTimestampDate ==
    pc = "commit" /\ Feeds[feed] = "stats" =>
        LET d == stats_date(data.body.timestamp)
        IN  /\ data.key /\ data.body.has_timestamp
            /\ StatsRow(d, data.body) \in txn.stats
            /\ {r \in txn.stats : r.date # d} = {r \in db.stats : r.date # d}
            /\ Cardinality({r \in txn.stats : r.date = d}) = 1
            /\ d # today => \A r \in txn.stats : r.date # today

\* a response stamped on another date than today, collected a second
\* time: the row of that date is written again, none for today
C17_Witness ==
    /\ pc = "commit"
    /\ Feeds[feed] = "stats"
    /\ stats_date(data.body.timestamp) # today
    /\ \E r \in db.stats : r.date = stats_date(data.body.timestamp)
    /\ \A r \in txn.stats : r.date # today
    /\ runs = 1


\* C18: the waits of one call of safe_api_call add up to at most
\* 5 * 60 * (1+2+3+4+5); they add up to at most 60 * (1+2+3+4+5), which
\* is what a call that exhausts its attempts has slept.
C18_TotalWaitBounded ==
    /\ Sum(waits) <= 5 * 60 * (1 + 2 + 3 + 4 + 5)
    /\ Sum(waits) <= RETRY_WAIT * (1 + 2 + 3 + 4 + 5)
    /\ pc = "raised" /\ exc = ExhaustedExc =>
          Sum(waits) = RETRY_WAIT * (1 + 2 + 3 + 4 + 5)

\* five transient failures: the call has slept 900 units in all
C18_Witness ==
    /\ pc = "raised"
    /\ exc = ExhaustedExc
    /\ waits = <<60, 120, 180, 240, 300>>
    /\ Sum(waits) = 900


ItemIdsIn(store) == {r.id : r \in store.items}

\* C19: no step of a run removes an item: every identifier in the committed
\* items table before a step is in it after the step, and so is every
\* identifier the connection sees unless the step is a rollback.
C19_ItemsNeverDeleted ==
    [][/\ ItemIdsIn(db) \subseteq ItemIdsIn(db')
       /\ pc # "except" => ItemIdsIn(txn) \subseteq ItemIdsIn(txn')]_vars

\* a later run committed an items response without items: the items seen
\* by the earlier run are still stored
C19_Witness ==
    /\ runs = 1
    /\ pc = "close"
    /\ result[1] = "committed"
    /\ \A r \in db.data : r.date # today
    /\ ItemIdsIn(db) = ItemIds


DataIdsOn(store, d) == {r.id : r \in {x \in store.data : x.date = d}}

\* C21: the items feed commits all of a response or nothing of it: the
\* committed tables never hold the rows of only some of a response's items;
\* a collector that reaches the commit has written the item row and the
\* price row of every item of the response; and when an upsert of the loop
\* raised, the committed tables stay as they were when the block was
\* entered and hold no price row for today.
C21_ItemsAllOrNothing ==
    /\ ItemIdsIn(db) \in {{}, ItemIds}
    /\ \A d \in Dates : DataIdsOn(db, d) \in {{}, ItemIds}
    /\ pc = "commit" /\ Feeds[feed] = "items" =>
          /\ data.key
          /\ \A i \in 1..Len(data.body) :
                /\ data.body[i].id \in ItemIdsIn(txn)
                /\ DataRow(data.body[i], today) \in txn.data
    /\ pc = "except" /\ Feeds[feed] = "items" => db = snap
    /\ result[1] = "failed" => DataIdsOn(db, today) = {}

\* the loop wrote the first item and raised on a later one: the connection
\* sees the first item's rows, the committed tables do not
C21_Witness ==
    /\ pc = "except"
    /\ Feeds[feed] = "items"
    /\ exc = IntegrityExc
    /\ ItemIdsIn(txn) = {1}
    /\ DataIdsOn(txn, today) = {1}
    /\ ItemIdsIn(db) = {}
    /\ db.data = {}

\* the feeds whose collector called safe_api_call in this invocation
CalledFeeds == {f \in 1..Len(Feeds) : calls[f] > 0}

\* C22: every invocation terminates: it calls safe_api_call at most once
\* per feed, a call issues at most MAX_RETRIES requests, so the invocation
\* issues at most 4 * 5 = 20 of them, and whatever the requests return
\* (transport failures and retryable codes included) it reaches
\* conn.close()
C22_RunTerminates ==
    /\ [](/\ \A f \in 1..Len(Feeds) : calls[f] <= 1
          /\ Len(requests) <= MAX_RETRIES
          /\ pc # "idle" => sent <= MAX_RETRIES * Cardinality(CalledFeeds)
          /\ sent <= 20)
    /\ (pc # "idle") ~> (pc = "close")

C22_Witness ==
    /\ pc = "close"
    /\ sent = 20
    /\ \A f \in 1..Len(Feeds) : calls[f] = 1 /\ result[f] = "failed"

\* the price rows of a store whose id is the id of none of its item rows
Orphans(store) == {r \in store.data : r.id \notin ItemIdsIn(store)}

\* C23: in every committed state, after runs with rolled-back feeds too,
\* the item identifier of each price row is the identifier of an item row;
\* the same holds of what the connection sees whenever no collector is in
\* the middle of its loop
C23_PriceRowsHaveItems ==
    /\ Orphans(db) = {}
    /\ Orphans(txn) = {}

C23_Witness ==
    /\ runs = 1
    /\ pc = "close"
    /\ result[1] = "committed"
    /\ \E f \in 2..Len(Feeds) : result[f] = "failed"
    /\ \E d \in Dates : d # today /\ DataIdsOn(db, d) = ItemIds
    /\ DataIdsOn(db, today) = ItemIds

\* C24: every failed attempt of safe_api_call is followed by its sleep, the
\* last one too: the step that records a transient failure of attempt n
\* appends the wait RETRY_WAIT * n, and the step by which the call raises
\* the retries-exhausted exception is the fifth such step, leaving the
\* waits 60, 120, 180, 240, 300 (900 in all) behind it
C24_SleepsAfterEveryFailure ==
    [][/\ (/\ Len(requests') = Len(requests) + 1
           /\ requests'[Len(requests')].outcome \in Transient)
          => waits' = Append(waits, RETRY_WAIT * Len(requests'))
       /\ (pc = "request" /\ pc' = "raised" /\ exc' = ExhaustedExc)
          => /\ Len(requests') = 5
             /\ \A i \in 1..5 : requests'[i].outcome \in Transient
             /\ waits = <<60, 120, 180, 240>>
             /\ waits' = <<60, 120, 180, 240, 300>>
             /\ Sum(waits') = 900]_vars

\* the fifth attempt failed by transport like the four before it: the call
\* has slept after each of the five and raised
C24_Witness ==
    /\ pc = "raised"
    /\ exc = ExhaustedExc
    /\ Len(requests) = 5
    /\ \A i \in 1..5 : requests[i].outcome = "transport"
    /\ Len(waits) = 5
    /\ waits[5] = 300


====
